---------------------------- MODULE Spec2Model ----------------------------
(***************************************************************************)
(* A model of clean.py: the plane-removal pipeline remove_plane and its    *)
(* helpers rotation_matrix_from_vectors, normalize_mesh and                *)
(* discard_extraneous.                                                     *)
(*                                                                         *)
(* Numbers.  numpy's float64 values are modelled as exact rationals        *)
(* <<num, den>> in lowest terms with den > 0, extended by the three        *)
(* IEEE special values that numpy's division produces instead of raising:  *)
(* <<1,0>> (+inf), <<-1,0>> (-inf) and <<0,0>> (nan).  Rounding error of   *)
(* float64 is not modelled.                                                *)
(*                                                                         *)
(* Meshes.  A mesh is a record [tris, wound, tight]: tris is the sequence  *)
(* of faces, each face the triple of its corner points (vertices shared    *)
(* by faces are the equal points); wound says that the face winding is     *)
(* consistent, tight that the mesh repairer has closed it.  The vertex     *)
(* array of a mesh is the set of distinct corner points.                   *)
(***************************************************************************)
EXTENDS Integers, Sequences, FiniteSets, TLC

-----------------------------------------------------------------------------
(* float64 arithmetic as extended rationals *)

Abs(i) == IF i < 0 THEN -i ELSE i

Sgn(i) == IF i < 0 THEN -1 ELSE IF i > 0 THEN 1 ELSE 0

RECURSIVE Gcd(_, _)
Gcd(i, j) == IF j = 0 THEN i ELSE Gcd(j, i % j)

\* the float with value i/j; j = 0 gives inf, -inf or nan
Rat(i, j) ==
    IF j = 0 THEN <<Sgn(i), 0>>
    ELSE LET g == Gcd(Abs(i), Abs(j))
             s == IF j < 0 THEN -1 ELSE 1
         IN  <<s * (i \div g), s * (j \div g)>>

FromInt(i) == <<i, 1>>

Zero == <<0, 1>>

One == <<1, 1>>

NaN == <<0, 0>>

IsFinite(x) == x[2] # 0

RNeg(x) == <<-x[1], x[2]>>

RAdd(x, y) ==
    IF x[2] = 0 /\ y[2] = 0
    THEN (IF x = y THEN x ELSE NaN)
    ELSE Rat(x[1] * y[2] + y[1] * x[2], x[2] * y[2])

RSub(x, y) == RAdd(x, RNeg(y))

RMul(x, y) == Rat(x[1] * y[1], x[2] * y[2])

\* numpy float64 division: x / 0 is inf, -inf or nan (a warning, no exception)
RDiv(x, y) ==
    IF y[2] = 0
    THEN (IF y[1] = 0 \/ x[2] = 0 THEN NaN ELSE Zero)
    ELSE IF y[1] = 0 THEN <<Sgn(x[1]), 0>>
    ELSE Rat(x[1] * y[2] * Sgn(y[1]), x[2] * Abs(y[1]))

\* comparisons; every comparison with nan is false
RLt(x, y) ==
    IF x[2] = 0 /\ y[2] = 0
    THEN x # NaN /\ y # NaN /\ x[1] < y[1]
    ELSE x[1] * y[2] < y[1] * x[2]

RLe(x, y) == RLt(x, y) \/ (x = y /\ x # NaN)

\* the square root of a square of a rational (np.linalg.norm of the vectors
\* the model uses is rational); inf for inf, nan for nan and negatives
ISqrt(i) == CHOOSE r \in 0..i : r * r = i

RSqrt(x) ==
    IF x[2] = 0 THEN (IF x[1] = 1 THEN x ELSE NaN)
    ELSE IF x[1] < 0 THEN NaN
    ELSE <<ISqrt(x[1]), ISqrt(x[2])>>

IsSquare(x) ==
    /\ x[2] # 0
    /\ x[1] >= 0
    /\ \E r \in 0..x[1] : r * r = x[1]
    /\ \E r \in 1..x[2] : r * r = x[2]

-----------------------------------------------------------------------------
(* numpy vectors (3-tuples) and 3x3 matrices (3-tuples of rows) *)

Vec(i, j, k) == <<FromInt(i), FromInt(j), FromInt(k)>>

VAdd(u, w) == <<RAdd(u[1], w[1]), RAdd(u[2], w[2]), RAdd(u[3], w[3])>>

VSub(u, w) == <<RSub(u[1], w[1]), RSub(u[2], w[2]), RSub(u[3], w[3])>>

VScale(u, x) == <<RMul(u[1], x), RMul(u[2], x), RMul(u[3], x)>>

VDiv(u, x) == <<RDiv(u[1], x), RDiv(u[2], x), RDiv(u[3], x)>>

VNeg(u) == <<RNeg(u[1]), RNeg(u[2]), RNeg(u[3])>>

Dot(u, w) == RAdd(RAdd(RMul(u[1], w[1]), RMul(u[2], w[2])), RMul(u[3], w[3]))

Cross(u, w) ==
    << RSub(RMul(u[2], w[3]), RMul(u[3], w[2])),
       RSub(RMul(u[3], w[1]), RMul(u[1], w[3])),
       RSub(RMul(u[1], w[2]), RMul(u[2], w[1])) >>

\* np.linalg.norm
Norm(u) == RSqrt(Dot(u, u))

VFinite(u) == IsFinite(u[1]) /\ IsFinite(u[2]) /\ IsFinite(u[3])

Eye3 == <<Vec(1, 0, 0), Vec(0, 1, 0), Vec(0, 0, 1)>>

MAdd(A, B) == <<VAdd(A[1], B[1]), VAdd(A[2], B[2]), VAdd(A[3], B[3])>>

MScale(A, x) == <<VScale(A[1], x), VScale(A[2], x), VScale(A[3], x)>>

Col(A, j) == <<A[1][j], A[2][j], A[3][j]>>

\* np.dot(u, A): a row vector times the matrix
VecMat(u, A) == <<Dot(u, Col(A, 1)), Dot(u, Col(A, 2)), Dot(u, Col(A, 3))>>

\* A.dot(B)
MMul(A, B) ==
    << VecMat(A[1], B), VecMat(A[2], B), VecMat(A[3], B) >>

\* A.dot(u): the matrix applied to a column vector
MatVec(A, u) == <<Dot(A[1], u), Dot(A[2], u), Dot(A[3], u)>>

-----------------------------------------------------------------------------
(* rotation_matrix_from_vectors *)

\* the cross-product matrix transposed, which turns the other way
kmatTransposed(v) ==
    << <<Zero, v[3], RNeg(v[2])>>,
       <<RNeg(v[3]), Zero, v[1]>>,
       <<v[2], RNeg(v[1]), Zero>> >>

\* kmat = np.array([[0, -v[2], v[1]], [v[2], 0, -v[0]], [-v[1], v[0], 0]])
kmatOf(v) ==
    << <<Zero, RNeg(v[3]), v[2]>>,
       <<v[3], Zero, RNeg(v[1])>>,
       <<RNeg(v[2]), v[1], Zero>> >>

\* `any(v)`: some component is not zero (nan is truthy)
AnyNonZero(v) == v[1] # Zero \/ v[2] # Zero \/ v[3] # Zero

\* s ** 2 for s = np.linalg.norm(v), which is the sum of the squares of v
NormSquared(v) == Dot(v, v)

rotation_matrix_from_vectors(vec1, vec2) ==
    LET a == VDiv(vec1, Norm(vec1))
        b == VDiv(vec2, Norm(vec2))
        v == Cross(a, b)
    IN  IF AnyNonZero(v)
        THEN LET c == Dot(a, b)
                 kmat == kmatOf(v)
             IN  MAdd(MAdd(Eye3, kmat),
                      MScale(MMul(kmat, kmat),
                             RDiv(RSub(One, c), NormSquared(v))))
        ELSE Eye3

-----------------------------------------------------------------------------
(* meshes *)

Range(f) == {f[i] : i \in DOMAIN f}

Corners(t) == {t[1], t[2], t[3]}

\* mesh.vertices, as the set of distinct points
Verts(m) == UNION {Corners(t) : t \in Range(m.tris)}

\* mesh.vertices.shape[0]
NumVerts(m) == Cardinality(Verts(m))

\* mesh.faces.shape[0]
NumFaces(m) == Len(m.tris)

\* the mesh with every row v of its vertex array replaced by img[v]
WithVerts(m, img) ==
    [m EXCEPT !.tris =
        [i \in DOMAIN m.tris |-> <<img[m.tris[i][1]], img[m.tris[i][2]], img[m.tris[i][3]]>>]]

\* np.min / np.max of a set of floats (nan if any is nan)
MinOf(S) ==
    IF NaN \in S THEN NaN ELSE CHOOSE x \in S : \A y \in S : RLe(x, y)

MaxOf(S) ==
    IF NaN \in S THEN NaN ELSE CHOOSE x \in S : \A y \in S : RLe(y, x)

\* np.min(mesh.vertices, axis=0), np.max(mesh.vertices, axis=0)
AxisMin(m) == [k \in 1..3 |-> MinOf({v[k] : v \in Verts(m)})]

AxisMax(m) == [k \in 1..3 |-> MaxOf({v[k] : v \in Verts(m)})]

-----------------------------------------------------------------------------
(* normalize_mesh *)

Half(x) == RDiv(x, FromInt(2))

BoxSize(m) == VSub(AxisMax(m), AxisMin(m))

\* scale = 1.0 / np.max(size)
ScaleOf(m) == RDiv(One, MaxOf(Range(BoxSize(m))))

\* translation = (size / 2.0) + mesh_min
TranslationOf(m) ==
    LET size == BoxSize(m)
    IN  VAdd(<<Half(size[1]), Half(size[2]), Half(size[3])>>, AxisMin(m))

\* returns <<mesh, translation, scale>>; the mesh is the argument's own
\* object, its vertex array changed in place
normalize_mesh(m) ==
    LET translation == TranslationOf(m)
        sc == ScaleOf(m)
    IN  <<WithVerts(m, [v \in Verts(m) |-> VScale(VSub(v, translation), sc)]), translation, sc>>

\* the two statements of the undo in the other order
UndoAddThenScale(m, tr, sc) ==
    WithVerts(m, [v \in Verts(m) |-> VScale(VAdd(v, tr), RDiv(One, sc))])

\* "Undo normalization": vertices *= (1/scale); vertices += trans
UndoNormalization(m, tr, sc) ==
    WithVerts(m, [v \in Verts(m) |-> VAdd(VScale(v, RDiv(One, sc)), tr)])

-----------------------------------------------------------------------------
(* trimesh.intersections.slice_mesh_plane(mesh, plane_normal, plane_origin): *)
(* the part of the mesh on the positive-normal side of the plane.  Faces     *)
(* with no corner below the plane are kept, faces with corners on both       *)
(* sides are clipped at the plane (which makes new vertices on it), the      *)
(* other faces are dropped.  The result is a new mesh object.                *)

\* np.dot(vertex - plane_origin, plane_normal)
PlaneDot(v, nrm, org) == Dot(VSub(v, org), nrm)

\* -1 below the plane, 1 above it, 0 on it (and 0 for nan, which compares
\* false both ways)
SideOf(v, nrm, org) ==
    LET d == PlaneDot(v, nrm, org)
    IN  IF RLt(d, Zero) THEN -1 ELSE IF RLt(Zero, d) THEN 1 ELSE 0

FaceSides(t, nrm, org) == <<SideOf(t[1], nrm, org), SideOf(t[2], nrm, org), SideOf(t[3], nrm, org)>>

FaceInside(t, nrm, org) == -1 \notin Range(FaceSides(t, nrm, org))

FaceOnEdge(t, nrm, org) ==
    1 \in Range(FaceSides(t, nrm, org)) /\ -1 \in Range(FaceSides(t, nrm, org))

\* the point where the edge from u (above) to w (below) meets the plane
EdgeCut(u, w, nrm, org) ==
    LET du == PlaneDot(u, nrm, org)
        dw == PlaneDot(w, nrm, org)
    IN  VAdd(u, VScale(VSub(w, u), RDiv(du, RSub(du, dw))))

\* the faces that replace a face with corners on both sides
ClipFace(t, nrm, org) ==
    LET sd == FaceSides(t, nrm, org)
        up == {i \in 1..3 : sd[i] = 1}
        on == {i \in 1..3 : sd[i] = 0}
        dn == {i \in 1..3 : sd[i] = -1}
    IN  IF Cardinality(up) = 2
        THEN LET i == CHOOSE i \in up : \A j \in up : i <= j
                 j == CHOOSE j \in up : j # i
                 k == CHOOSE k \in dn : TRUE
                 cj == EdgeCut(t[j], t[k], nrm, org)
                 ci == EdgeCut(t[i], t[k], nrm, org)
             IN  << <<t[i], t[j], cj>>, <<t[i], cj, ci>> >>
        ELSE IF Cardinality(on) = 1
        THEN LET i == CHOOSE i \in up : TRUE
                 j == CHOOSE j \in on : TRUE
                 k == CHOOSE k \in dn : TRUE
             IN  << <<t[i], t[j], EdgeCut(t[i], t[k], nrm, org)>> >>
        ELSE LET i == CHOOSE i \in up : TRUE
                 j == CHOOSE j \in dn : \A k \in dn : j <= k
                 k == CHOOSE k \in dn : k # j
             IN  << <<t[i], EdgeCut(t[i], t[j], nrm, org), EdgeCut(t[i], t[k], nrm, org)>> >>

RECURSIVE ClipAll(_, _, _)
ClipAll(ts, nrm, org) ==
    IF ts = << >> THEN << >>
    ELSE ClipFace(Head(ts), nrm, org) \o ClipAll(Tail(ts), nrm, org)

slice_mesh_plane(m, nrm, org) ==
    LET Inside(t) == FaceInside(t, nrm, org)
        OnEdge(t) == FaceOnEdge(t, nrm, org)
    IN  [m EXCEPT !.tris =
            SelectSeq(m.tris, Inside) \o ClipAll(SelectSeq(m.tris, OnEdge), nrm, org)]

-----------------------------------------------------------------------------
(* discard_extraneous: six slices, one per face of the cube [-bbx, bbx]^3 *)

BoxOrigins(bbx) ==
    << <<bbx, Zero, Zero>>, <<RNeg(bbx), Zero, Zero>>,
       <<Zero, bbx, Zero>>, <<Zero, RNeg(bbx), Zero>>,
       <<Zero, Zero, bbx>>, <<Zero, Zero, RNeg(bbx)>> >>

BoxNormals ==
    << Vec(-1, 0, 0), Vec(1, 0, 0), Vec(0, -1, 0), Vec(0, 1, 0), Vec(0, 0, -1), Vec(0, 0, 1) >>

RECURSIVE SliceEach(_, _, _, _)
SliceEach(m, ps, ns, i) ==
    IF i > Len(ps) THEN m
    ELSE SliceEach(slice_mesh_plane(m, ns[i], ps[i]), ps, ns, i + 1)

discard_extraneous(m, bbx) == SliceEach(m, BoxOrigins(bbx), BoxNormals, 1)

-----------------------------------------------------------------------------
(* Trimesh.split(only_watertight=False): the connected components, faces    *)
(* joined through shared edges, in the order of their first face            *)

Adjacent(t, u) == Cardinality(Corners(t) \cap Corners(u)) >= 2

RECURSIVE Reach(_, _)
Reach(ts, S) ==
    LET S2 == S \cup {j \in DOMAIN ts : \E i \in S : Adjacent(ts[i], ts[j])}
    IN  IF S2 = S THEN S ELSE Reach(ts, S2)

RECURSIVE ComponentsFrom(_, _, _)
ComponentsFrom(m, i, seen) ==
    IF i > Len(m.tris) THEN << >>
    ELSE IF i \in seen THEN ComponentsFrom(m, i + 1, seen)
    ELSE LET c == Reach(m.tris, {i})
             InC(k) == k \in c
             idx == SelectSeq([k \in 1..Len(m.tris) |-> k], InC)
         IN  << [m EXCEPT !.tris = [k \in 1..Len(idx) |-> m.tris[idx[k]]]] >>
             \o ComponentsFrom(m, i + 1, seen \cup c)

split(m) == ComponentsFrom(m, 1, {})

\* the last of the largest entries
ArgMaxLast(xs) ==
    CHOOSE i \in DOMAIN xs :
        /\ \A j \in DOMAIN xs : xs[j] <= xs[i]
        /\ \A j \in DOMAIN xs : j > i => xs[j] < xs[i]

\* np.argmax of a non-empty list: the first of the largest entries
ArgMax(xs) ==
    CHOOSE i \in DOMAIN xs :
        /\ \A j \in DOMAIN xs : xs[j] <= xs[i]
        /\ \A j \in DOMAIN xs : j < i => xs[j] < xs[i]

-----------------------------------------------------------------------------
(* pyransac3d.Plane().fit(points, thresh): RANSAC.  Each iteration samples  *)
(* three points, takes the plane through them (unit normal vecC, offset     *)
(* k = -vecC . second sample) and keeps the candidate with the most         *)
(* inliers; which samples are drawn is random, so the result is any plane   *)
(* through three points of the cloud that are not collinear, with its       *)
(* normal either way round (the order of the samples decides).  The model   *)
(* keeps the planes whose unit normal is rational.                          *)

PlaneThrough(A, B, C) ==
    LET vecC == Cross(VSub(B, A), VSub(C, A))
        unit == VDiv(vecC, Norm(vecC))
    IN  <<unit[1], unit[2], unit[3], RNeg(Dot(unit, B))>>

\* the plane of the same three samples drawn in the opposite order
Opposite(eq) == <<RNeg(eq[1]), RNeg(eq[2]), RNeg(eq[3]), RNeg(eq[4])>>

\* the rows of the point cloud, face by face
CornerList(m) == [i \in 1..(3 * Len(m.tris)) |-> m.tris[((i - 1) \div 3) + 1][((i - 1) % 3) + 1]]

Samples(m) ==
    LET pts == CornerList(m)
        N == Len(pts)
    IN  {t \in (1..N) \X (1..N) \X (1..N) :
            /\ t[1] < t[2] /\ t[2] < t[3]
            /\ pts[t[1]] # pts[t[2]] /\ pts[t[1]] # pts[t[3]] /\ pts[t[2]] # pts[t[3]]
            /\ VFinite(pts[t[1]]) /\ VFinite(pts[t[2]]) /\ VFinite(pts[t[3]])
            /\ LET vecC == Cross(VSub(pts[t[2]], pts[t[1]]), VSub(pts[t[3]], pts[t[1]]))
               IN  AnyNonZero(vecC) /\ IsSquare(Dot(vecC, vecC))}

FitResults(m) ==
    LET pts == CornerList(m)
        eqs == {PlaneThrough(pts[t[1]], pts[t[2]], pts[t[3]]) : t \in Samples(m)}
    IN  eqs \cup {Opposite(eq) : eq \in eqs}

-----------------------------------------------------------------------------
(* the inputs *)

Tri(a, b, c) == <<Vec(a[1], a[2], a[3]), Vec(b[1], b[2], b[3]), Vec(c[1], c[2], c[3])>>

\* a scan standing on the ground z = 0: a ground square and two separate
\* triangles of the object above it
ScanZ ==
    << Tri(<<0, 0, 0>>, <<8, 0, 0>>, <<8, 8, 0>>), Tri(<<0, 0, 0>>, <<8, 8, 0>>, <<0, 8, 0>>),
       Tri(<<3, 3, 1>>, <<5, 3, 1>>, <<4, 3, 3>>), Tri(<<3, 5, 1>>, <<5, 5, 1>>, <<4, 5, 3>>) >>

\* a scan standing on the ground y = 0: a ground square, a part of two faces
\* that share an edge and a part of one face
ScanY ==
    << Tri(<<0, 0, 0>>, <<8, 0, 0>>, <<8, 0, 8>>), Tri(<<0, 0, 0>>, <<8, 0, 8>>, <<0, 0, 8>>),
       Tri(<<3, 1, 5>>, <<5, 1, 5>>, <<4, 3, 5>>),
       Tri(<<3, 1, 3>>, <<5, 1, 3>>, <<4, 3, 3>>), Tri(<<5, 1, 3>>, <<4, 3, 3>>, <<5, 3, 3>>) >>

\* a flat square: nothing but the ground
Floor ==
    << Tri(<<0, 0, 2>>, <<4, 0, 2>>, <<4, 4, 2>>), Tri(<<0, 0, 2>>, <<4, 4, 2>>, <<0, 4, 2>>) >>

\* all vertices at one point: a bounding box of size zero
Speck == << Tri(<<1, 2, 3>>, <<1, 2, 3>>, <<1, 2, 3>>) >>

\* a scan standing on the tilted ground 3x + 4y = 0, one face of the object
\* above it
ScanTilted ==
    << Tri(<<0, 0, 0>>, <<4, -3, 0>>, <<4, -3, 5>>), Tri(<<0, 0, 0>>, <<4, -3, 5>>, <<0, 0, 5>>),
       Tri(<<3, 4, 1>>, <<3, 4, 3>>, <<7, 1, 2>>) >>

InputCatalog == <<ScanZ, ScanY, Floor, Speck, ScanTilted>>

\* how many scans of the catalog the caller may pass
NumInputs == 4

InputFaces == {InputCatalog[i] : i \in 1..NumInputs}

\* a raw scan: its winding is not known to be consistent
InputMeshes == {[tris |-> ts, wound |-> FALSE, tight |-> FALSE] : ts \in InputFaces}

\* the defaults of remove_plane's parameters
plane_offset == Rat(1, 200)

trim_amount == Rat(3, 5)

fix_winding_default == TRUE

reorient_default == TRUE

normalize_default == TRUE

keep_largest_default == TRUE

close_holes_default == TRUE

\* a keyword argument is given as TRUE or FALSE, or left out
Given == {"omitted", "true", "false"}

ArgValue(given, default) == IF given = "omitted" THEN default ELSE given = "true"

-----------------------------------------------------------------------------
(* remove_plane: the state of one call *)

VARIABLES
    mesh,            \* the caller's mesh object, which the parameter `mesh` names
    entry,           \* the caller's mesh as it was when remove_plane was called
    args,            \* the values of fix_winding, reorient, normalize, keep_largest, close_holes
    normalize_given, \* whether the call gave normalize
    orig_num_pts, trans, scale, best_eq, n, p, p_cur, rot_m, new_mesh,
    components,      \* the list new_mesh.split(only_watertight=False) returned
    largest,         \* the index np.argmax returned (counted from 1)
    pc,              \* the statement the call is at
    err,             \* the exception that ended the call, or "none"
    trace,           \* the stages run so far, in order
    vec1, vec2, R    \* a call of rotation_matrix_from_vectors on its own

vars == <<mesh, entry, args, normalize_given, orig_num_pts, trans, scale, best_eq,
          n, p, p_cur, rot_m, new_mesh, components, largest, pc, err, trace,
          vec1, vec2, R>>

locals == <<orig_num_pts, trans, scale, best_eq, n, p, p_cur, rot_m, new_mesh,
            components, largest>>

rotvars == <<vec1, vec2, R>>

None == "none"

NoMesh == [tris |-> << >>, wound |-> FALSE, tight |-> FALSE]

Unset ==
    /\ args = None
    /\ normalize_given = FALSE
    /\ orig_num_pts = 0
    /\ trans = None /\ scale = None /\ best_eq = None
    /\ n = None /\ p = None /\ p_cur = None /\ rot_m = None
    /\ new_mesh = None
    /\ components = None /\ largest = 0
    /\ err = None
    /\ trace = << >>

Init ==
    /\ mesh \in InputMeshes
    /\ entry = mesh
    /\ Unset
    /\ pc = "idle"
    /\ vec1 = None /\ vec2 = None /\ R = None

\* the caller calls remove_plane(mesh, ...), giving or leaving out each flag
Call ==
    /\ pc = "idle"
    /\ \E fw, ro, nz, kl, ch \in Given :
        /\ args' = [fix_winding  |-> ArgValue(fw, fix_winding_default),
                    reorient     |-> ArgValue(ro, reorient_default),
                    normalize    |-> ArgValue(nz, normalize_default),
                    keep_largest |-> ArgValue(kl, keep_largest_default),
                    close_holes  |-> ArgValue(ch, close_holes_default)]
        /\ normalize_given' = (nz # "omitted")
    /\ pc' = "fix_winding"
    /\ UNCHANGED <<mesh, entry, locals, err, trace, rotvars>>

\* a stage that runs whatever its flag says
RunsAlways == TRUE

\* the conditions under which the optional stages run

RunsFixWinding == args.fix_winding

RunsKeepLargest == args.keep_largest

RunsReorient == args.reorient

RunsUndoNormalization == ~args.normalize

RunsCloseHoles == args.close_holes

\* trimesh.repair.fix_winding(mesh): in place, on the caller's mesh
FixWinding ==
    /\ pc = "fix_winding"
    /\ IF RunsFixWinding
       THEN mesh' = [mesh EXCEPT !.wound = TRUE] /\ trace' = Append(trace, "fix_winding")
       ELSE UNCHANGED <<mesh, trace>>
    /\ orig_num_pts' = NumVerts(mesh')
    /\ pc' = "normalize"
    /\ UNCHANGED <<entry, args, normalize_given, trans, scale, best_eq, n, p, p_cur,
                   rot_m, new_mesh, components, largest, err, rotvars>>

\* mesh, trans, scale = normalize_mesh(mesh)
Normalize ==
    /\ pc = "normalize"
    /\ LET r == normalize_mesh(mesh)
       IN  mesh' = r[1] /\ trans' = r[2] /\ scale' = r[3]
    /\ trace' = Append(trace, "normalize")
    /\ pc' = "plane_fit"
    /\ UNCHANGED <<entry, args, normalize_given, orig_num_pts, best_eq, n, p, p_cur,
                   rot_m, new_mesh, components, largest, err, rotvars>>

Raise(e) ==
    /\ err' = e
    /\ pc' = "raised"

\* best_eq, _ = pyrsc.Plane().fit(mesh.vertices, ransac_threshold).  With fewer
\* than three points the sampling raises ValueError; with no plane found (a
\* cloud of nan) the fit returns [] and best_eq[3] raises IndexError
PlaneFit ==
    /\ pc = "plane_fit"
    /\ trace' = Append(trace, "plane_fit")
    /\ LET found == FitResults(mesh)
       IN  IF found # {}
           THEN /\ best_eq' \in found
                /\ pc' = "convert"
                /\ UNCHANGED err
           ELSE /\ Raise(IF NumVerts(mesh) < 3 THEN "ValueError" ELSE "IndexError")
                /\ UNCHANGED best_eq
    /\ UNCHANGED <<mesh, entry, args, normalize_given, orig_num_pts, trans, scale,
                   n, p, p_cur, rot_m, new_mesh, components, largest, rotvars>>

\* n = best_eq[:3]; n = n / np.dot(n, n)
NormalOf(eq) ==
    LET m == <<eq[1], eq[2], eq[3]>>
    IN  VDiv(m, Dot(m, m))

\* p = [0, 0, -float(best_eq[3] / best_eq[2])], the indices counted from 0
PointOf(eq) == <<Zero, Zero, RNeg(RDiv(eq[4], eq[3]))>>

\* "Convert to point normal form"
Convert ==
    /\ pc = "convert"
    /\ n' = NormalOf(best_eq)
    /\ p' = PointOf(best_eq)
    /\ pc' = "probe"
    /\ UNCHANGED <<mesh, entry, args, normalize_given, orig_num_pts, trans, scale,
                   best_eq, p_cur, rot_m, new_mesh, components, largest, err, trace, rotvars>>

\* the comparison the other way round
MoreThanHalf(count, total) == 2 * count > total

\* new_mesh.vertices.shape[0] < (orig_num_pts * 0.5)
FewerThanHalf(count, total) == 2 * count < total

\* "Do initial slice", "Re-orient normal vector", "Get upright transformation"
Probe ==
    /\ pc = "probe"
    /\ new_mesh' = slice_mesh_plane(mesh, n, p)
    /\ n' = IF FewerThanHalf(NumVerts(new_mesh'), orig_num_pts) THEN VNeg(n) ELSE n
    /\ rot_m' = rotation_matrix_from_vectors(Vec(0, 1, 0), n')
    /\ trace' = Append(trace, "probe")
    /\ pc' = "final_cut"
    /\ UNCHANGED <<mesh, entry, args, normalize_given, orig_num_pts, trans, scale,
                   best_eq, p, p_cur, components, largest, err, rotvars>>

\* "Edge plane up a little and cut"
FinalCut ==
    /\ pc = "final_cut"
    /\ p_cur' = VAdd(p, VScale(n, plane_offset))
    /\ new_mesh' = slice_mesh_plane(mesh, n, p_cur')
    /\ trace' = Append(trace, "final_cut")
    /\ pc' = "box_trim"
    /\ UNCHANGED <<mesh, entry, args, normalize_given, orig_num_pts, trans, scale,
                   best_eq, n, p, rot_m, components, largest, err, rotvars>>

\* new_mesh = discard_extraneous(new_mesh, (trim_amount/2))
BoxTrim ==
    /\ pc = "box_trim"
    /\ new_mesh' = discard_extraneous(new_mesh, Half(trim_amount))
    /\ trace' = Append(trace, "box_trim")
    /\ pc' = "keep_largest"
    /\ UNCHANGED <<mesh, entry, args, normalize_given, orig_num_pts, trans, scale,
                   best_eq, n, p, p_cur, rot_m, components, largest, err, rotvars>>

\* [m.vertices.shape[0] for m in new_mesh]
VertexCounts(ms) == [i \in DOMAIN ms |-> NumVerts(ms[i])]

\* "Retain only the largest connected component"; np.argmax of an empty list
\* raises ValueError
KeepLargest ==
    /\ pc = "keep_largest"
    /\ IF RunsKeepLargest
       THEN /\ trace' = Append(trace, "keep_largest")
            /\ components' = split(new_mesh)
            /\ IF components' = << >>
               THEN Raise("ValueError") /\ UNCHANGED <<new_mesh, largest>>
               ELSE /\ largest' = ArgMax(VertexCounts(components'))
                    /\ new_mesh' = components'[largest']
                    /\ pc' = "reorient"
                    /\ UNCHANGED err
       ELSE /\ pc' = "reorient"
            /\ UNCHANGED <<new_mesh, components, largest, trace, err>>
    /\ UNCHANGED <<mesh, entry, args, normalize_given, orig_num_pts, trans, scale,
                   best_eq, n, p, p_cur, rot_m, rotvars>>

\* new_mesh.vertices = np.dot(new_mesh.vertices, rot_m)
Upright(m, rot) ==
    WithVerts(m, [v \in Verts(m) |-> VecMat(v, rot)])

\* "Orient the mesh upright"
Reorient ==
    /\ pc = "reorient"
    /\ IF RunsReorient
       THEN new_mesh' = Upright(new_mesh, rot_m) /\ trace' = Append(trace, "reorient")
       ELSE UNCHANGED <<new_mesh, trace>>
    /\ pc' = "undo_normalization"
    /\ UNCHANGED <<mesh, entry, args, normalize_given, orig_num_pts, trans, scale,
                   best_eq, n, p, p_cur, rot_m, components, largest, err, rotvars>>

\* "Undo normalization"
UndoNormalize ==
    /\ pc = "undo_normalization"
    /\ IF RunsUndoNormalization
       THEN /\ new_mesh' = UndoNormalization(new_mesh, trans, scale)
            /\ trace' = Append(trace, "undo_normalization")
       ELSE UNCHANGED <<new_mesh, trace>>
    /\ pc' = "close_holes"
    /\ UNCHANGED <<mesh, entry, args, normalize_given, orig_num_pts, trans, scale,
                   best_eq, n, p, p_cur, rot_m, components, largest, err, rotvars>>

\* "Close mesh holes": pymeshfix repairs the mesh, and a new Trimesh is made
\* of its vertices and faces
CloseHoles ==
    /\ pc = "close_holes"
    /\ IF RunsCloseHoles
       THEN /\ new_mesh' = [new_mesh EXCEPT !.tight = TRUE]
            /\ trace' = Append(trace, "close_holes")
       ELSE UNCHANGED <<new_mesh, trace>>
    /\ pc' = "return"
    /\ UNCHANGED <<mesh, entry, args, normalize_given, orig_num_pts, trans, scale,
                   best_eq, n, p, p_cur, rot_m, components, largest, err, rotvars>>

\* return new_mesh
Return ==
    /\ pc = "return"
    /\ pc' = "returned"
    /\ UNCHANGED <<mesh, entry, args, normalize_given, locals, err, trace, rotvars>>

Next ==
    \/ Call
    \/ FixWinding
    \/ Normalize
    \/ PlaneFit
    \/ Convert
    \/ Probe
    \/ FinalCut
    \/ BoxTrim
    \/ KeepLargest
    \/ Reorient
    \/ UndoNormalize
    \/ CloseHoles
    \/ Return

Spec == Init /\ [][Next]_vars

-----------------------------------------------------------------------------
(* rotation_matrix_from_vectors called on its own *)

\* the largest coordinate of the vectors tried
MaxCoord == 4

Coords == (-MaxCoord)..MaxCoord

\* the integer vectors whose length is a positive integer
Vectors ==
    {Vec(c[1], c[2], c[3]) : c \in
        {c \in Coords \X Coords \X Coords :
            /\ c # <<0, 0, 0>>
            /\ \E r \in 1..(2 * MaxCoord) : r * r = c[1] * c[1] + c[2] * c[2] + c[3] * c[3]}}

InitRot ==
    /\ vec1 \in Vectors
    /\ vec2 \in Vectors
    /\ R = None
    /\ pc = "rot_call"
    /\ mesh = NoMesh /\ entry = NoMesh
    /\ Unset

RotationCall ==
    /\ pc = "rot_call"
    /\ R' = rotation_matrix_from_vectors(vec1, vec2)
    /\ pc' = "rot_returned"
    /\ UNCHANGED <<mesh, entry, args, normalize_given, locals, err, trace, vec1, vec2>>

NextRot == RotationCall

SpecRot == InitRot /\ [][NextRot]_vars

-----------------------------------------------------------------------------
(* normalize_mesh followed by the pipeline's "Undo normalization" *)

\* the largest coordinate of the vertices tried
MaxSpan == 2

Spans == (-MaxSpan)..MaxSpan

GridPoints == {Vec(c[1], c[2], c[3]) : c \in Spans \X Spans \X Spans}

\* one face with a corner at the origin
RoundTripMeshes ==
    {[tris |-> << <<Vec(0, 0, 0), a, b>> >>, wound |-> FALSE, tight |-> FALSE] :
        a \in GridPoints, b \in GridPoints}

InitRoundTrip ==
    /\ mesh \in RoundTripMeshes
    /\ entry = mesh
    /\ Unset
    /\ pc = "rt_normalize"
    /\ vec1 = None /\ vec2 = None /\ R = None

\* mesh, trans, scale = normalize_mesh(mesh)
RoundTripNormalize ==
    /\ pc = "rt_normalize"
    /\ LET r == normalize_mesh(mesh)
       IN  mesh' = r[1] /\ trans' = r[2] /\ scale' = r[3]
    /\ pc' = "rt_undo"
    /\ UNCHANGED <<entry, args, normalize_given, orig_num_pts, best_eq, n, p, p_cur,
                   rot_m, new_mesh, components, largest, err, trace, rotvars>>

\* new_mesh.vertices *= (1/scale); new_mesh.vertices += trans
RoundTripUndo ==
    /\ pc = "rt_undo"
    /\ new_mesh' = UndoNormalization(mesh, trans, scale)
    /\ pc' = "rt_done"
    /\ UNCHANGED <<mesh, entry, args, normalize_given, orig_num_pts, trans, scale,
                   best_eq, n, p, p_cur, rot_m, components, largest, err, trace, rotvars>>

NextRoundTrip == RoundTripNormalize \/ RoundTripUndo

SpecRoundTrip == InitRoundTrip /\ [][NextRoundTrip]_vars

-----------------------------------------------------------------------------
(* the properties *)

StageOrder ==
    << "fix_winding", "normalize", "plane_fit", "probe", "final_cut", "box_trim",
       "keep_largest", "reorient", "undo_normalization", "close_holes" >>

StageIndex(s) == CHOOSE i \in DOMAIN StageOrder : StageOrder[i] = s

\* whether the flags of the call let the stage run
StageEnabled(s) ==
    CASE s = "fix_winding" -> args.fix_winding
      [] s = "keep_largest" -> args.keep_largest
      [] s = "reorient" -> args.reorient
      [] s = "undo_normalization" -> ~args.normalize
      [] s = "close_holes" -> args.close_holes
      [] OTHER -> TRUE

\* C1: in every call, for every combination of the flags, the stages run are
\* in the fixed order winding fix, normalize, plane fit, orientation probe,
\* final cut, box trim, component selection, reorientation, undo
\* normalization, hole repair; none runs twice or after a later one; a stage
\* its flag disables is not run; and a call that returns has run exactly the
\* enabled stages.
C1_StageOrder ==
    /\ \A i, j \in DOMAIN trace : i < j => StageIndex(trace[i]) < StageIndex(trace[j])
    /\ \A i \in DOMAIN trace : trace[i] \in Range(StageOrder) /\ StageEnabled(trace[i])
    /\ pc = "returned" => trace = SelectSeq(StageOrder, StageEnabled)

\* a call with every stage enabled has returned after running all ten
C1_Witness == pc = "returned" /\ Len(trace) = Len(StageOrder)

\* C2: a call that leaves normalize out runs the undo-normalization step
\* (the option defaults to false).
C2_DefaultUndoes ==
    (pc = "returned" /\ ~normalize_given) => \E i \in DOMAIN trace : trace[i] = "undo_normalization"

\* C3: when the call has returned, the vertex positions of the caller's mesh
\* are those it had before the call.
C3_InputUntouched == pc = "returned" => mesh.tris = entry.tris

\* the bounding box of the mesh has size zero
ZeroSizeBox(m) == \A v, w \in Verts(m) : v = w

\* C4: with a zero-size bounding box the call ends in normalization with a
\* DegenerateGeometryError; the plane fit and the later stages do not run.
C4_DegenerateAborts ==
    (ZeroSizeBox(entry) /\ pc \notin {"idle", "fix_winding", "normalize"})
        => /\ pc = "raised"
           /\ err = "DegenerateGeometryError"
           /\ \A i \in DOMAIN trace : StageIndex(trace[i]) <= StageIndex("normalize")

\* C5: when no face is left after the final cut and the box trim, the call
\* ends with an EmptyMeshError, with keep_largest or without it; it does not go
\* on to reorientation, undo normalization or repair and returns no empty mesh.
C5_EmptyMeshAborts ==
    (/\ \E i \in DOMAIN trace : trace[i] = "box_trim"
     /\ pc # "keep_largest"
     /\ NumFaces(new_mesh) = 0)
        => pc = "raised" /\ err = "EmptyMeshError"

\* C6: with keep_largest and a non-empty list of components, the component
\* kept is the first of those with the greatest vertex count.
C6_FirstLargest ==
    (pc = "reorient" /\ args.keep_largest)
        => /\ largest \in DOMAIN components
           /\ new_mesh = components[largest]
           /\ \A j \in DOMAIN components :
                /\ NumVerts(components[j]) <= NumVerts(components[largest])
                /\ j < largest => NumVerts(components[j]) < NumVerts(components[largest])

\* a component is kept although a later one has as many vertices
C6_Witness ==
    /\ pc = "reorient" /\ args.keep_largest
    /\ \E j \in DOMAIN components :
        j > largest /\ NumVerts(components[j]) = NumVerts(components[largest])

UnitOf(vec) == VDiv(vec, Norm(vec))

C8_RoundTrip ==
    (pc = "rt_done" /\ ~ZeroSizeBox(entry)) => new_mesh.tris = entry.tris

\* a mesh that normalization moved and scaled has been restored
C8_Witness ==
    /\ pc = "rt_done" /\ ~ZeroSizeBox(entry)
    /\ scale # One /\ trans # Vec(0, 0, 0)
    /\ mesh.tris # entry.tris
    /\ new_mesh.tris = entry.tris

\* the number of vertices the probe slice along the fitted normal keeps
ProbeCount == NumVerts(slice_mesh_plane(mesh, <<best_eq[1], best_eq[2], best_eq[3]>>, p))

\* the vertices of the mesh in the half-space the final cut keeps
KeptSide == {v \in Verts(mesh) : RLe(Zero, Dot(VSub(v, p_cur), n))}

\* C9 (as amended): after the probe, n is the fitted normal negated exactly
\* when the probe slice (its vertices include those the cut makes) has fewer
\* than half as many vertices as the input mesh.
C9_NegatedWhenFewer ==
    pc = "final_cut"
        => /\ new_mesh = slice_mesh_plane(mesh, <<best_eq[1], best_eq[2], best_eq[3]>>, p)
           /\ n = IF 2 * ProbeCount < orig_num_pts
                  THEN <<RNeg(best_eq[1]), RNeg(best_eq[2]), RNeg(best_eq[3])>>
                  ELSE <<best_eq[1], best_eq[2], best_eq[3]>>

\* the probe kept fewer than half of the vertices and n has been negated
C9_Witness ==
    /\ pc = "final_cut"
    /\ 2 * ProbeCount < orig_num_pts
    /\ ProbeCount > 0
    /\ n = <<RNeg(best_eq[1]), RNeg(best_eq[2]), RNeg(best_eq[3])>>

\* C9: n is negated exactly when the probe keeps fewer than half of the
\* vertices, and the half-space the final cut keeps contains at least half of
\* the vertices of the mesh.
C9_KeepsLargerSide ==
    /\ C9_NegatedWhenFewer
    /\ pc = "box_trim" => 2 * Cardinality(KeptSide) >= orig_num_pts

\* C10: the point p of the point-normal form is finite and lies on the fitted
\* plane, and the normal is (a, b, c).
C10_PointOnPlane ==
    pc = "probe"
        => /\ VFinite(p)
           /\ RAdd(Dot(<<best_eq[1], best_eq[2], best_eq[3]>>, p), best_eq[4]) = Zero
           /\ n = <<best_eq[1], best_eq[2], best_eq[3]>>

=============================================================================
